---- MODULE Spec2Model ----
(***************************************************************************)
(* Model of bin/viirs_af_runner.py: the control loop of                    *)
(* viirs_active_fire_runner, ViirsActiveFiresProcessor (initialise, run),  *)
(* the ThreadPool workers executing spawn_cspp, and publish_af.            *)
(***************************************************************************)
EXTENDS Integers, Sequences, FiniteSets, TLC

(* ------------------------------ bounds --------------------------------- *)
\* number of passes of the endless control loop the model follows, which is
\* also the number of jobs it lets the loop submit
MaxJobs == 2
\* OPTIONS['ncpus']: size of the ThreadPool
NCpus == 1

(* --------------------------- messages ---------------------------------- *)
\* VIIRS_SATELLITES is used by run() but its definition is not in the file
VIIRS_SATELLITES == {"Suomi-NPP", "NOAA-20"}

\* a URI of a dataset entry, as urlparse splits it
Uri(host, path) == [scheme |-> "ssh", netloc |-> host, path |-> path]

\* urlparse(sdr['uri']).path
UrlPath(uri) == uri.path

SdrEntry(host, path, uid) == [uri |-> Uri(host, path), uid |-> uid]

Datasets ==
    { << >>,
      << SdrEntry("hostA", "/a/SVM02.h5", "SVM02.h5"),
         SdrEntry("hostB", "/b/SVM01.h5", "SVM01.h5") >> }

Absent == "<absent>"
PlatformChoices == {"Suomi-NPP", "unknown-sat", Absent}
SensorChoices == {"viirs", "modis", Absent}
OrbitChoices == {4711, -1}      \* -1: the message carries no orbit_number
MsgTypes == {"dataset", "file"}

\* msg.data: a dict; a key that the sender left out is not in the DOMAIN
MsgData(p, s, o, ds) ==
    [k \in ({"dataset"}
            \cup (IF p = Absent THEN {} ELSE {"platform_name"})
            \cup (IF s = Absent THEN {} ELSE {"sensor"})
            \cup (IF o = -1 THEN {} ELSE {"orbit_number"})) |->
        CASE k = "platform_name" -> p
          [] k = "sensor" -> s
          [] k = "orbit_number" -> o
          [] k = "dataset" -> ds]

\* what subscr.recv(timeout=300) yields on a timeout: None
NoMsg == [type |-> "<None>", data |-> [k \in {} |-> 0]]

Messages ==
    { [type |-> t, data |-> MsgData(p, s, o, ds)] :
        t \in MsgTypes, p \in PlatformChoices, s \in SensorChoices,
        o \in OrbitChoices, ds \in Datasets }

\* the values subscr.recv(timeout=300) can yield
Received == Messages \cup {NoMsg}

\* truth value of a received object: None is false, a Message object is true
Truthy(m) == m # NoMsg

\* self.message_data = None
NoneData == [k \in {"<None>"} |-> TRUE]


(* ------------------------- configuration ------------------------------- *)
\* OPTIONS.get('publish_topic'): the topics publish_af iterates over
publish_topic == << "AF", "AFX" >>
\* OPTIONS.get('site', 'unknown') and OPTIONS['environment']
site == "unknown"
environment == "test"

(* ------------------------- artifacts ----------------------------------- *)
\* names of the files the external program leaves in its working directory:
\* ..._dYYYYMMDD_tHHMMSSs_eHHMMSSs_...
\* the d-, t- and e-fields are kept as their digits
ArtifactNames ==
    << [d |-> << 2,0,2,1,0,4,1,3 >>, t |-> << 0,9,1,6,1,8,6 >>, e |-> << 0,9,1,7,4,2,8 >>],
       [d |-> << 2,0,2,1,0,4,1,3 >>, t |-> << 0,9,1,7,4,4,0 >>, e |-> << 0,9,1,9,0,8,2 >>] >>

\* a path: directory and basename
Path(dir, base) == [dir |-> dir, base |-> base]

\* os.path.basename
Basename(path) == path.base

\* get_active_fire_result_files(working_dir): the artifacts found in the
\* directory, in a fixed order; none, the first, or both
ResultLists(working_dir) ==
    { SubSeq([i \in 1..Len(ArtifactNames) |-> Path(working_dir, ArtifactNames[i])], 1, n) :
        n \in 0..Len(ArtifactNames) }

RECURSIVE SubSequences(_)
\* the subsequences of a sequence, order kept
SubSequences(s) ==
    IF s = << >> THEN { << >> }
    ELSE LET rest == SubSequences(Tail(s))
         IN  rest \cup { << Head(s) >> \o r : r \in rest }

\* deliver_output_files(result_files, result_home, subd): the new paths of
\* the files that were moved to the output directory
Delivered(result_files) ==
    { [i \in 1..Len(sub) |-> Path("output_dir", Basename(sub[i]))] :
        sub \in SubSequences(result_files) }

RECURSIVE Number(_)
\* the number a string of decimal digits stands for
Number(digits) ==
    IF digits = << >> THEN 0
    ELSE 10 * Number(SubSeq(digits, 1, Len(digits) - 1)) + digits[Len(digits)]

\* datetime.strptime of a date field YYYYMMDD and a time field HHMMSS
DateTime(ymd, hms) ==
    [year |-> Number(SubSeq(ymd, 1, 4)), month |-> Number(SubSeq(ymd, 5, 6)),
     day |-> Number(SubSeq(ymd, 7, 8)), hour |-> Number(SubSeq(hms, 1, 2)),
     minute |-> Number(SubSeq(hms, 3, 4)), second |-> Number(SubSeq(hms, 5, 6))]

\* get_edr_times that keeps the tenth of a second and drops the tens of hours
get_edr_times_last_six(filename) ==
    << DateTime(filename.d, SubSeq(filename.t, 2, 7)),
       DateTime(filename.d, SubSeq(filename.e, 2, 7)) >>

\* get_edr_times(filename): start and end time to the second; the seventh
\* digit of the t- and e-field, the tenth of a second, is dropped
get_edr_times(filename) ==
    << DateTime(filename.d, SubSeq(filename.t, 1, 6)),
       DateTime(filename.d, SubSeq(filename.e, 1, 6)) >>

(* ----------------------------- state ----------------------------------- *)
VARIABLES
    pc,             \* position of the control loop
    cycle,          \* number of passes of `while True' started
    msg,            \* loop variable of `for msg in subscr.recv(...)'
    status,         \* what the last run(msg) returned
    crash,          \* the exception that ended the control loop, if any
    platform_name, sensor, message_data, sdr_files, result_files,
    cspp_results,   \* handles (job numbers) of this cycle
    jobs,           \* the AsyncResult objects and their tasks
    ndirs,          \* temporary directories created so far
    idx,            \* position of `for res in cspp_results'
    working_dir, tmp_result_files, af_files,
    cleaned,        \* working directories removed
    sent,           \* messages handed to publisher.send, with their job
    events          \* the steps of Draining taken so far, per job

vars == << pc, cycle, msg, status, crash, platform_name, sensor, message_data,
           sdr_files, result_files, cspp_results, jobs, ndirs, idx,
           working_dir, tmp_result_files, af_files, cleaned, sent, events >>

procVars == << platform_name, sensor, message_data, sdr_files, result_files >>
drainVars == << idx, working_dir, tmp_result_files, af_files >>

\* ViirsActiveFiresProcessor.__init__ and the state before the first pass
Init ==
    /\ pc = "idle"
    /\ cycle = 0
    /\ msg = NoMsg
    /\ status = "none"
    /\ crash = "none"
    /\ platform_name = "unknown"
    /\ sensor = "<unset>"
    /\ message_data = NoneData
    /\ sdr_files = << >>
    /\ result_files = << >>
    /\ cspp_results = << >>
    /\ jobs = << >>
    /\ ndirs = 0
    /\ idx = 0
    /\ working_dir = 0
    /\ tmp_result_files = << >>
    /\ af_files = << >>
    /\ cleaned = {}
    /\ sent = << >>
    /\ events = << >>


(* --------------------- ViirsActiveFiresProcessor ----------------------- *)
\* self.orbit_number, set in __init__ and never changed
orbit_number == 1

\* initialise() that forgets the handle list
initialise_keeps_handles ==
    /\ cspp_results' = cspp_results
    /\ result_files' = << >>
    /\ sdr_files' = << >>

\* initialise(): the fields it resets
initialise ==
    /\ cspp_results' = << >>
    /\ result_files' = << >>
    /\ sdr_files' = << >>

\* the if/elif chain that opens run(): which branch is taken.  The elif
\* branches are tried only when `if msg:' is false.
RunBranch(m) ==
    IF Truthy(m) THEN "debug"
    ELSE IF Truthy(m) /\ ("platform_name" \notin DOMAIN m.data
                          \/ "sensor" \notin DOMAIN m.data) THEN "return"
    ELSE IF Truthy(m) /\ ~(m.data["platform_name"] \in VIIRS_SATELLITES
                           /\ m.data["sensor"] = "viirs") THEN "return"
    ELSE "fall"

\* a run() that looks at the first entry of the dataset only
SdrFiles_first_only(sdr_dataset) ==
    << UrlPath(sdr_dataset[1].uri) >>

\* the sdr_files list run() builds from the dataset of a message
SdrFiles(sdr_dataset) ==
    [i \in 1..Len(sdr_dataset) |-> UrlPath(sdr_dataset[i].uri)]

\* a run() that stores the payload only while none is stored
MessagePayload_first_kept(m) ==
    IF message_data = NoneData THEN m.data ELSE message_data

\* self.message_data = msg.data
MessagePayload(m) == m.data

\* run() returning True also after a submission
StatusSubmitted_true == "True"

\* what run() returns once it has handed the job to the pool
StatusSubmitted == "False"

\* run(msg): the exception it raises or the value it returns, the fields it
\* has assigned by then, and whether it has called pool.apply_async
run(m) ==
    LET old == [ret |-> "True", submit |-> FALSE,
                platform_name |-> platform_name, sensor |-> sensor,
                message_data |-> message_data, sdr_files |-> sdr_files]
    IN
    IF RunBranch(m) = "return" THEN old
    ELSE IF ~Truthy(m) THEN [old EXCEPT !.ret = "AttributeError"]
    ELSE IF "platform_name" \notin DOMAIN m.data
         THEN [old EXCEPT !.ret = "KeyError"]
    ELSE IF "sensor" \notin DOMAIN m.data
         THEN [old EXCEPT !.ret = "KeyError",
                          !.platform_name = m.data["platform_name"]]
    ELSE LET set == [old EXCEPT !.platform_name = m.data["platform_name"],
                                !.sensor = m.data["sensor"],
                                !.message_data = MessagePayload(m)]
         IN  IF m.type # "dataset" THEN set
             ELSE IF Len(m.data["dataset"]) < 1 THEN set
             ELSE [set EXCEPT !.sdr_files = SdrFiles(m.data["dataset"]),
                              !.submit = TRUE,
                              !.ret = StatusSubmitted]

\* pool.apply_async(spawn_cspp, (sdrfiles,)): a new task and its handle
NewJob(sdrfiles, m) ==
    [sdrfiles |-> sdrfiles, state |-> "queued", outcome |-> "pending",
     working_dir |-> 0, result_files |-> << >>, runs |-> 0,
     cycle |-> cycle, msg |-> m]

(* --------------------------- control loop ------------------------------ *)
\* while True: viirs_af_proc.initialise()
StartCycle ==
    /\ pc = "idle"
    /\ cycle < MaxJobs
    /\ initialise
    /\ cycle' = cycle + 1
    /\ pc' = "collecting"
    /\ UNCHANGED << msg, status, crash, platform_name, sensor, message_data, jobs,
                    ndirs, drainVars, cleaned, sent, events >>

\* for msg in subscr.recv(timeout=300): status = run(msg); break if not status
Receive(m) ==
    /\ pc = "collecting"
    /\ LET r == run(m) IN
       /\ r.submit => Len(jobs) < MaxJobs
       /\ msg' = m
       /\ status' = IF r.ret \in {"True", "False"} THEN r.ret ELSE status
       /\ crash' = IF r.ret \in {"True", "False"} THEN crash ELSE r.ret
       /\ platform_name' = r.platform_name
       /\ sensor' = r.sensor
       /\ message_data' = r.message_data
       /\ sdr_files' = r.sdr_files
       /\ IF r.submit
          THEN /\ jobs' = Append(jobs, NewJob(r.sdr_files, m))
               /\ cspp_results' = Append(cspp_results, Len(jobs) + 1)
          ELSE UNCHANGED << jobs, cspp_results >>
       /\ pc' = CASE r.ret = "True" -> "collecting"
                  [] r.ret = "False" -> "get"
                  [] OTHER -> "crashed"
       /\ idx' = IF r.ret = "False" THEN 1 ELSE idx
    /\ UNCHANGED << cycle, result_files, ndirs, working_dir, tmp_result_files,
                    af_files, cleaned, sent, events >>


(* ------------------------------ workers -------------------------------- *)
\* the tasks a worker thread of the pool is executing
Running == { j \in 1..Len(jobs) : jobs[j].state = "running" }

\* a free worker thread takes the oldest queued task and enters spawn_cspp;
\* run_cspp_viirs_af creates the task's temporary directory
WorkerStart(j) ==
    /\ j \in 1..Len(jobs)
    /\ jobs[j].state = "queued"
    /\ \A k \in 1..(j - 1) : jobs[k].state # "queued"
    /\ Cardinality(Running) < NCpus
    /\ ndirs' = ndirs + 1
    /\ jobs' = [jobs EXCEPT ![j].state = "running",
                            ![j].runs = @ + 1,
                            ![j].working_dir = ndirs + 1]
    /\ UNCHANGED << pc, cycle, msg, status, crash, procVars, cspp_results,
                    drainVars, cleaned, sent, events >>

\* spawn_cspp(sdrfiles) on a working directory: the tuple it returns, or the
\* exception that run_cspp_viirs_af or get_active_fire_result_files raised
spawn_cspp(wd) ==
    { [outcome |-> "result", result_files |-> rf] : rf \in ResultLists(wd) }
    \cup { [outcome |-> "exception", result_files |-> << >>] }

\* the task ends: the pool stores the return value in the AsyncResult
WorkerReturn(j) ==
    /\ j \in Running
    /\ \E r \in spawn_cspp(jobs[j].working_dir) :
          /\ r.outcome = "result"
          /\ jobs' = [jobs EXCEPT ![j].state = "done",
                                  ![j].outcome = r.outcome,
                                  ![j].result_files = r.result_files]
    /\ UNCHANGED << pc, cycle, msg, status, crash, procVars, cspp_results,
                    ndirs, drainVars, cleaned, sent, events >>

\* the task ends with an exception: the pool stores it in the AsyncResult
WorkerRaise(j) ==
    /\ j \in Running
    /\ \E r \in spawn_cspp(jobs[j].working_dir) :
          /\ r.outcome = "exception"
          /\ jobs' = [jobs EXCEPT ![j].state = "done",
                                  ![j].outcome = r.outcome,
                                  ![j].result_files = r.result_files]
    /\ UNCHANGED << pc, cycle, msg, status, crash, procVars, cspp_results,
                    ndirs, drainVars, cleaned, sent, events >>


(* ----------------------------- publish_af ------------------------------ *)
\* socket.gethostname()
Hostname == "thishost"

\* urlunsplit(('ssh', socket.gethostname(), result_file, '', ''))
UrlUnsplit(scheme, netloc, path) ==
    [scheme |-> scheme, netloc |-> netloc, path |-> path]

\* a dataset list whose uid is the whole path
AfDataset_uid_is_path(files) ==
    [i \in 1..Len(files) |->
        [uri |-> UrlUnsplit("ssh", Hostname, files[i]),
         uid |-> files[i]]]

\* the `dataset' list publish_af builds: one entry per result file
AfDataset(files) ==
    [i \in 1..Len(files) |->
        [uri |-> UrlUnsplit("ssh", Hostname, files[i]),
         uid |-> Basename(files[i])]]

\* the variable `filename' publish_af passes to get_edr_times, were it the
\* name of the first result file
EdrFilename_first(files) == Basename(files[1])

\* the variable `filename' publish_af passes to get_edr_times: what the loop
\* over result_files assigned last
EdrFilename(files) == Basename(files[Len(files)])

\* to_send: the copy of mda as publish_af has changed it
ToSend(files, mda, orbit) ==
    LET filename == EdrFilename(files)
        times == get_edr_times(filename)
    IN  [k \in (DOMAIN mda \cup {"orig_orbit_number", "orbit_number", "dataset",
                                  "format", "type", "data_processing_level",
                                  "start_time", "end_time"}) |->
            CASE k = "orig_orbit_number" -> mda["orbit_number"]
              [] k = "orbit_number" -> orbit
              [] k = "dataset" -> AfDataset(files)
              [] k = "format" -> "EDR"
              [] k = "type" -> "NETCDF"
              [] k = "data_processing_level" -> "2"
              [] k = "start_time" -> times[1]
              [] k = "end_time" -> times[2]
              [] OTHER -> mda[k]]

\* Message('/'.join(('', topic, format, level, site, environment, 'polar',
\* 'direct_readout')), "dataset", to_send).encode()
EncodedMessage(topic, to_send) ==
    [subject |-> << "", topic, to_send["format"],
                    to_send["data_processing_level"], site, environment,
                    "polar", "direct_readout" >>,
     type |-> "dataset",
     data |-> to_send]

\* publish_af past its first test: the exception it raises, if any, and the
\* messages it gives publisher.send
PublishFiles(files, mda, orbit, topics) ==
    IF "orbit_number" \notin DOMAIN mda
    THEN [raised |-> "KeyError", send |-> << >>, built |-> 0]
    ELSE IF topics = << >>
    THEN [raised |-> "UnboundLocalError", send |-> << >>, built |-> 0]
    ELSE LET to_send == ToSend(files, mda, orbit)
             built == [i \in 1..Len(topics) |-> EncodedMessage(topics[i], to_send)]
         IN  [raised |-> "none", send |-> << built[Len(topics)] >>,
              built |-> Len(built)]

\* publish_af without the test for an empty list: it announces an empty
\* dataset
publish_af_unguarded(files, mda, orbit, topics) ==
    IF files = << >>
    THEN [raised |-> "none", built |-> 1,
          send |-> << [subject |-> << "" >>, type |-> "dataset", data |-> mda] >>]
    ELSE PublishFiles(files, mda, orbit, topics)

\* publish_af(publisher, result_files, mda, orbit=..., publish_topic=...)
publish_af(files, mda, orbit, topics) ==
    IF files = << >> THEN [raised |-> "none", send |-> << >>, built |-> 0]
    ELSE PublishFiles(files, mda, orbit, topics)

(* ------------------------------ Draining ------------------------------- *)
Event(step, j, n) == [step |-> step, job |-> j, n |-> n]

\* the handle `for res in viirs_af_proc.cspp_results' is at
Res == cspp_results[idx]

\* working_dir, tmp_result_files = res.get(): waits for the task to end
GetResult ==
    /\ pc = "get"
    /\ jobs[Res].state = "done"
    /\ jobs[Res].outcome = "result"
    /\ working_dir' = jobs[Res].working_dir
    /\ tmp_result_files' = jobs[Res].result_files
    /\ events' = Append(events, Event("get", Res, Len(jobs[Res].result_files)))
    /\ pc' = "deliver"
    /\ UNCHANGED << cycle, msg, status, crash, procVars, cspp_results, jobs,
                    ndirs, idx, af_files, cleaned, sent >>

\* res.get() raises the exception the task ended with
GetRaises ==
    /\ pc = "get"
    /\ jobs[Res].state = "done"
    /\ jobs[Res].outcome = "exception"
    /\ crash' = "WorkerError"
    /\ pc' = "crashed"
    /\ UNCHANGED << cycle, msg, status, procVars, cspp_results, jobs, ndirs,
                    drainVars, cleaned, sent, events >>

\* a loop body that cleans up only when something was delivered
Deliver_skips_cleanup ==
    /\ pc = "deliver"
    /\ result_files' = tmp_result_files
    /\ \E af \in Delivered(tmp_result_files) :
          /\ af_files' = af
          /\ events' = Append(events, Event("deliver", Res, Len(af)))
          /\ pc' = IF af = << >> THEN "publish" ELSE "cleanup"
    /\ UNCHANGED << cycle, msg, status, crash, platform_name, sensor,
                    message_data, sdr_files, cspp_results, jobs, ndirs, idx,
                    working_dir, tmp_result_files, cleaned, sent >>

\* viirs_af_proc.result_files = tmp_result_files
\* af_files = viirs_af_proc.deliver_output_files()
Deliver ==
    /\ pc = "deliver"
    /\ result_files' = tmp_result_files
    /\ \E af \in Delivered(tmp_result_files) :
          /\ af_files' = af
          /\ events' = Append(events, Event("deliver", Res, Len(af)))
    /\ pc' = "cleanup"
    /\ UNCHANGED << cycle, msg, status, crash, platform_name, sensor,
                    message_data, sdr_files, cspp_results, jobs, ndirs, idx,
                    working_dir, tmp_result_files, cleaned, sent >>

\* cleanup_cspp_workdir(working_dir)
Cleanup ==
    /\ pc = "cleanup"
    /\ cleaned' = cleaned \cup {working_dir}
    /\ events' = Append(events, Event("cleanup", Res, working_dir))
    /\ pc' = "publish"
    /\ UNCHANGED << cycle, msg, status, crash, procVars, cspp_results, jobs,
                    ndirs, drainVars, sent >>

\* publish_af(publisher, af_files, viirs_af_proc.message_data, ...), then the
\* next handle, or the next pass of `while True' after the last one
Publish ==
    /\ pc = "publish"
    /\ LET p == publish_af(af_files, message_data, orbit_number, publish_topic) IN
       /\ sent' = sent \o [i \in 1..Len(p.send) |->
                               [job |-> Res, msg |-> p.send[i], files |-> af_files,
                                mda |-> message_data, built |-> p.built]]
       /\ events' = Append(events, Event("publish_af", Res, Len(af_files)))
       /\ crash' = IF p.raised = "none" THEN crash ELSE p.raised
       /\ pc' = IF p.raised # "none" THEN "crashed"
                ELSE IF idx < Len(cspp_results) THEN "get" ELSE "idle"
       /\ idx' = IF p.raised = "none" /\ idx < Len(cspp_results) THEN idx + 1 ELSE idx
    /\ UNCHANGED << cycle, msg, status, procVars, cspp_results, jobs, ndirs,
                    working_dir, tmp_result_files, af_files, cleaned >>

(* --------------------------- specification ----------------------------- *)
Next ==
    \/ StartCycle
    \/ \E m \in Received : Receive(m)
    \/ \E j \in 1..MaxJobs : WorkerStart(j)
    \/ \E j \in 1..MaxJobs : WorkerReturn(j)
    \/ \E j \in 1..MaxJobs : WorkerRaise(j)
    \/ GetResult
    \/ GetRaises
    \/ Deliver
    \/ Cleanup
    \/ Publish

Spec == Init /\ [][Next]_vars


(* ------------------------------ properties ----------------------------- *)
Jobs == 1..Len(jobs)

\* the steps of Draining taken for job j, in the order they were taken
StepsOf(j) ==
    LET ofJob == SelectSeq(events, LAMBDA e : e.job = j)
    IN  [i \in 1..Len(ofJob) |-> ofJob[i].step]

IsPrefix(s, t) == Len(s) <= Len(t) /\ SubSeq(t, 1, Len(s)) = s

HasEvent(step, j) == \E i \in 1..Len(events) : events[i].step = step /\ events[i].job = j

WasSentFor(j) == \E k \in 1..Len(sent) : sent[k].job = j

\* C1: whenever publish_af was called for a job with an empty list of
\* delivered files, nothing was handed to publisher.send for that job.
C1_NoSendForEmpty ==
    \A i \in 1..Len(events) :
        (events[i].step = "publish_af" /\ events[i].n = 0)
            => ~WasSentFor(events[i].job)

\* a job with delivered list empty has passed publish_af and the loop went on
C1_Witness ==
    \E i \in 1..Len(events) :
        /\ events[i].step = "publish_af" /\ events[i].n = 0
        /\ ~WasSentFor(events[i].job)
        /\ pc = "idle"

\* a message that carries both identification fields, but not those of a
\* VIIRS scene of a recognized satellite
Unrecognized(m) ==
    /\ m # NoMsg
    /\ "platform_name" \in DOMAIN m.data
    /\ "sensor" \in DOMAIN m.data
    /\ ~(m.data["platform_name"] \in VIIRS_SATELLITES /\ m.data["sensor"] = "viirs")

\* C2: for a message whose platform is not recognized or whose sensor is not
\* viirs, run(msg) returns True and no job is submitted for it.
C2_UnrecognizedIgnored ==
    /\ Unrecognized(msg) => status = "True"
    /\ \A j \in Jobs : ~Unrecognized(jobs[j].msg)

\* C3: a job whose body raised in the worker does not bring the exception to
\* the control loop: the loop is never ended by it.
C3_WorkerExceptionIsolated ==
    \A j \in Jobs :
        jobs[j].outcome = "exception" => (pc # "crashed" /\ crash # "WorkerError")

\* C4: a receive that timed out leaves the loop in Collecting, submits no
\* job and leaves file list, stored payload and handles as they were.
C4_TimeoutKeepsCollecting ==
    [][Receive(NoMsg) =>
          /\ pc' = "collecting"
          /\ crash' = crash
          /\ UNCHANGED << sdr_files, message_data, cspp_results, jobs >>]_vars

\* C5: no cycle has two submitted jobs, and while the loop is consuming
\* messages no job of the current cycle has been submitted.
C5_OneSubmitEndsCollecting ==
    /\ \A j, k \in Jobs : jobs[j].cycle = jobs[k].cycle => j = k
    /\ Len(cspp_results) <= 1
    /\ pc = "collecting" => \A j \in Jobs : jobs[j].cycle # cycle

\* the second cycle has submitted its job and is Draining
C5_Witness ==
    /\ cycle = 2
    /\ pc = "publish"
    /\ \E j \in Jobs : jobs[j].cycle = 2

\* C6: every job the pool has finished holds a JobResult, and its body ran
\* once.
C6_OneResultPerJob ==
    \A j \in Jobs :
        /\ jobs[j].runs <= 1
        /\ jobs[j].state = "done" => (jobs[j].outcome = "result" /\ jobs[j].runs = 1)

\* C7: the notifications are sent in the order of submission of their jobs,
\* and while a cycle is consuming messages every job of an earlier cycle has
\* been through publish_af, its notification sent if it delivered anything.
C7_PublishedInOrder ==
    /\ \A a, b \in 1..Len(sent) : a < b => sent[a].job < sent[b].job
    /\ pc = "collecting" =>
          \A j \in Jobs :
              /\ jobs[j].cycle < cycle
              /\ \E i \in 1..Len(events) :
                    /\ events[i].step = "publish_af" /\ events[i].job = j
                    /\ events[i].n > 0 => WasSentFor(j)

\* both cycles have published, the first before the second
C7_Witness ==
    /\ Len(sent) = 2
    /\ sent[1].job = 1 /\ sent[2].job = 2
    /\ jobs[1].cycle = 1 /\ jobs[2].cycle = 2

\* C8: the steps taken for a job are, in this order, get, deliver, cleanup,
\* publish_af; and the working directory of every job whose result was
\* obtained is removed as soon as the loop is past the cleanup step.
C8_DrainOrder ==
    \A j \in Jobs :
        /\ IsPrefix(StepsOf(j), << "get", "deliver", "cleanup", "publish_af" >>)
        /\ HasEvent("get", j) =>
              \/ pc \in {"deliver", "cleanup"} /\ Res = j
              \/ jobs[j].working_dir \in cleaned

\* a job that delivered nothing: cleaned up, not announced, the loop went on
C8_Witness ==
    \E j \in Jobs :
        /\ StepsOf(j) = << "get", "deliver", "cleanup", "publish_af" >>
        /\ \E i \in 1..Len(events) :
              events[i] = Event("deliver", j, 0)
        /\ jobs[j].working_dir \in cleaned
        /\ ~WasSentFor(j)
        /\ pc = "idle"

\* a message without platform_name or without sensor
LacksIdentification(m) ==
    /\ m # NoMsg
    /\ ("platform_name" \notin DOMAIN m.data \/ "sensor" \notin DOMAIN m.data)

\* C9: for a message that lacks platform_name or sensor, run(msg) returns
\* True without raising, submits no job and the loop goes on collecting.
C9_MissingFieldsIgnored ==
    [][\A m \in Messages :
          (LacksIdentification(m) /\ Receive(m)) =>
              /\ status' = "True"
              /\ crash' = crash
              /\ pc' = "collecting"
              /\ UNCHANGED << cspp_results, jobs >>]_vars

\* a message that is not of type dataset, or whose dataset list is empty
NotActionable(m) ==
    /\ m # NoMsg
    /\ (m.type # "dataset" \/ Len(m.data["dataset"]) = 0)

\* C10: for a message that is not a dataset or has an empty dataset list,
\* run(msg) returns True, the handle list is unchanged and the cycle stays
\* in Collecting.
C10_NotActionableIgnored ==
    [][\A m \in Messages :
          (NotActionable(m) /\ Receive(m)) =>
              /\ status' = "True"
              /\ crash' = crash
              /\ pc' = "collecting"
              /\ UNCHANGED << cspp_results, jobs >>]_vars

\* C11: a run(msg) that returns True leaves file list, platform name, sensor,
\* stored payload and handle list as they were before the call.
C11_IgnoreHasNoEffect ==
    [][\A m \in Received :
          (Receive(m) /\ status' = "True" /\ pc' = "collecting") =>
              UNCHANGED << sdr_files, platform_name, sensor, message_data,
                           cspp_results >>]_vars

\* C12: the file list of every submitted job is as long as the dataset list
\* of its message, and its i-th element is the path of the i-th entry's URI.
C12_JobFilesArePaths ==
    \A j \in Jobs :
        LET dataset == jobs[j].msg.data["dataset"] IN
        /\ Len(dataset) >= 1
        /\ Len(jobs[j].sdrfiles) = Len(dataset)
        /\ \A i \in 1..Len(dataset) : jobs[j].sdrfiles[i] = dataset[i].uri.path

\* a job was submitted for a dataset of two entries on different hosts
C12_Witness ==
    \E j \in Jobs :
        /\ Len(jobs[j].sdrfiles) = 2
        /\ jobs[j].sdrfiles[1] # jobs[j].sdrfiles[2]
        /\ jobs[j].msg.data["dataset"][1].uri.netloc
              # jobs[j].msg.data["dataset"][2].uri.netloc

\* C13: when publish_af is called for a reaped job, the metadata handed to it
\* is the data of the message on which run() submitted that job; so is the
\* metadata of every notification sent.
C13_PayloadOfTrigger ==
    /\ pc = "publish" => message_data = jobs[Res].msg.data
    /\ \A k \in 1..Len(sent) : sent[k].mda = jobs[sent[k].job].msg.data

\* publish_af is about to be called for the job of the second cycle, whose
\* payload differs from that of the first
C13_Witness ==
    /\ pc = "publish"
    /\ cycle = 2
    /\ af_files # << >>
    /\ jobs[1].msg.data # jobs[2].msg.data
    /\ Len(sent) = 1

\* C14: for every call of publish_af with a non-empty list, one message was
\* built per topic and exactly one was sent, the one built for the last topic.
C14_SentOnceLastTopic ==
    \A i \in 1..Len(events) :
        (events[i].step = "publish_af" /\ events[i].n > 0) =>
            LET for == { k \in 1..Len(sent) : sent[k].job = events[i].job } IN
            /\ Cardinality(for) = 1
            /\ \A k \in for :
                  /\ sent[k].built = Len(publish_topic)
                  /\ sent[k].msg.subject[2] = publish_topic[Len(publish_topic)]

\* C15: the data of every notification sent has one dataset entry per
\* delivered file, in order, with the basename as uid; format, type and
\* data_processing_level are EDR, NETCDF and 2; orig_orbit_number is the
\* orbit_number of the originating payload; the other fields are copied; and
\* when publish_af has returned the originating payload is as it was.
C15_PayloadBuilt ==
    \A k \in 1..Len(sent) :
        LET data == sent[k].msg.data
            files == sent[k].files
            mda == jobs[sent[k].job].msg.data
        IN
        /\ Len(data["dataset"]) = Len(files)
        /\ \A i \in 1..Len(files) :
              /\ data["dataset"][i].uid = files[i].base
              /\ data["dataset"][i].uri.path = files[i]
        /\ data["format"] = "EDR"
        /\ data["type"] = "NETCDF"
        /\ data["data_processing_level"] = "2"
        /\ data["orig_orbit_number"] = mda["orbit_number"]
        /\ data["orbit_number"] = orbit_number
        /\ \A key \in DOMAIN mda \ {"dataset", "orbit_number"} : data[key] = mda[key]
        /\ sent[k].mda = mda
        /\ (pc = "idle" /\ sent[k].job = Len(jobs)) => message_data = mda

\* a notification for two delivered files was sent
C15_Witness ==
    \E k \in 1..Len(sent) :
        /\ Len(sent[k].files) = 2
        /\ Len(sent[k].msg.data["dataset"]) = 2
        /\ sent[k].msg.data["orig_orbit_number"] = 4711

\* C16: every pass of `while True' starts with the handle list, the file
\* lists, the platform name, the sensor and the stored payload at their
\* initial values.
C16_CycleStartsReset ==
    [][StartCycle =>
          /\ cspp_results' = << >>
          /\ sdr_files' = << >>
          /\ result_files' = << >>
          /\ platform_name' = "unknown"
          /\ sensor' = "<unset>"
          /\ message_data' = NoneData]_vars

At(y, mo, d, h, mi, sec) ==
    [year |-> y, month |-> mo, day |-> d, hour |-> h, minute |-> mi, second |-> sec]

\* C17: the times of a notification whose last file is
\* ..._d20210413_t0916186_e0917428_... are 2021-04-13 09:16:18 and 09:17:42,
\* and those for ..._d20210413_t0917440_e0919082_... are 09:17:44 and 09:19:08.
C17_EdrTimes ==
    \A k \in 1..Len(sent) :
        LET data == sent[k].msg.data
            name == sent[k].files[Len(sent[k].files)].base
        IN
        /\ name.t = << 0,9,1,6,1,8,6 >> =>
              /\ data["start_time"] = At(2021, 4, 13, 9, 16, 18)
              /\ data["end_time"] = At(2021, 4, 13, 9, 17, 42)
        /\ name.t = << 0,9,1,7,4,4,0 >> =>
              /\ data["start_time"] = At(2021, 4, 13, 9, 17, 44)
              /\ data["end_time"] = At(2021, 4, 13, 9, 19, 8)

\* a notification was sent whose times come from the file of the test
C17_Witness ==
    \E k \in 1..Len(sent) :
        /\ sent[k].files[Len(sent[k].files)].base.t = << 0,9,1,6,1,8,6 >>
        /\ sent[k].msg.data["start_time"].second = 18

\* the jobs submitted whose result the loop has not obtained
Unreaped == { j \in Jobs : ~HasEvent("get", j) }

Gets(j) == Cardinality({ i \in 1..Len(events) :
                            events[i].step = "get" /\ events[i].job = j })

\* C19: no result is obtained twice, the handles in the list are those of
\* the current cycle, and when initialise() is about to discard the list, or
\* has done so, the result of every job submitted was obtained once.
C19_HandlesReapedOnce ==
    /\ \A j \in Jobs : Gets(j) <= 1
    /\ \A i \in 1..Len(cspp_results) : jobs[cspp_results[i]].cycle = cycle
    /\ pc \in {"idle", "collecting"} => \A j \in Jobs : Gets(j) = 1

\* two cycles are over, each having reaped its handle
C19_Witness ==
    /\ pc = "idle"
    /\ cycle = 2
    /\ Len(cspp_results) = 1
    /\ \A j \in 1..2 : j \in Jobs /\ Gets(j) = 1

\* C20: start_time and end_time of every notification are the times in the
\* name of the last file delivered.
C20_TimesOfLastFile ==
    \A k \in 1..Len(sent) :
        << sent[k].msg.data["start_time"], sent[k].msg.data["end_time"] >>
            = get_edr_times(sent[k].files[Len(sent[k].files)].base)

\* a notification for two files with different times in their names
C20_Witness ==
    \E k \in 1..Len(sent) :
        /\ Len(sent[k].files) = 2
        /\ get_edr_times(sent[k].files[1].base) # get_edr_times(sent[k].files[2].base)
        /\ sent[k].msg.data["start_time"] = At(2021, 4, 13, 9, 17, 44)

====
